---- MODULE Spec2Model ----
(***************************************************************************)
(* findso: search of shared objects for an exported function symbol.       *)
(*                                                                         *)
(* The module models SymbolFinder (src/src/findso/core.py) and the         *)
(* command line driver (src/src/findso/cli.py): its sequential path and    *)
(* its path over a multiprocessing pool.                                   *)
(*                                                                         *)
(* A file is what the finder can observe of it: whether open() succeeds,   *)
(* whether ELFFile() accepts it, whether it has a DynamicSection and a     *)
(* .dynsym section, and the slots of .dynsym in on-disk order.  A slot is  *)
(* either a readable symbol (name, st_shndx, st_info.type, st_value) or a  *)
(* slot whose bytes cannot be parsed: dynsym.iter_symbols() raises         *)
(* ELFError when it reaches such a slot.                                   *)
(***************************************************************************)
EXTENDS Integers, Sequences, FiniteSets, TLC

\* ------------------------------------------------------------------ bounds
MaxFiles == 3        \* longest so_files list handed to a SymbolFinder
MaxSyms == 2         \* most slots in one .dynsym table
MaxMatchFiles == 2   \* longest list of single-symbol files
MaxReuseFiles == 2   \* longest list of a finder that is searched repeatedly
MaxCalls == 2        \* most find_symbol calls over the finders of one list
MaxFinders == 2      \* most finders built from one list
MaxListing == 2      \* most paths `find so_dir -name "*.so*"` prints
MaxTableFiles == 2   \* longest list of files with tables of several slots
MaxParFiles == 8     \* longest list that main searches with a pool
MaxJobs == 2         \* largest --jobs of a search with a pool
MaxExporters == 2    \* most exporting files in a list searched with a pool
MaxFairExporters == 1 \* most exporting files in a list of a run followed to its end
MaxChunkFiles == 210 \* longest list that is cut into chunks
MaxChunkJobs == 3    \* largest --jobs for which a list is cut into chunks

\* ------------------------------------------------------------ symbol slots
SymbolNames == {"puts", "gets"}

\* st_shndx as pyelftools reports it: a reserved name, or a section index
\* (written here as the string "14").
ShndxValues == {"SHN_UNDEF", "SHN_ABS", "14"}

TypeValues == {"STT_FUNC", "STT_OBJECT", "STT_NOTYPE"}

\* st_value: zero, or a load address.
AddrValues == {0, 4096}

Sym(n, shndx, type, value) ==
    [ok |-> TRUE, name |-> n, st_shndx |-> shndx, type |-> type, st_value |-> value]

\* A slot of .dynsym that cannot be parsed (truncated or corrupt bytes).
CorruptSlot ==
    [ok |-> FALSE, name |-> "", st_shndx |-> "SHN_UNDEF", type |-> "STT_NOTYPE", st_value |-> 0]

\* Every readable symbol over the small value sets.
AllSymbols ==
    {Sym(n, s, t, v) : n \in SymbolNames, s \in ShndxValues, t \in TypeValues, v \in AddrValues}

\* The slots the multi-file searches draw tables from: an exported function
\* puts, puts as an undefined import, puts as a data object, an exported
\* function gets, and a corrupt slot.
SymbolPool ==
    { Sym("puts", "14", "STT_FUNC", 4096),
      Sym("puts", "SHN_UNDEF", "STT_FUNC", 0),
      Sym("puts", "14", "STT_OBJECT", 4096),
      Sym("gets", "14", "STT_FUNC", 4096),
      CorruptSlot }

SeqsUpTo(S, n) == UNION {[1..k -> S] : k \in 0..n}

\* ------------------------------------------------------------------- files
File(kind, syms) == [kind |-> kind, syms |-> syms]

\* kind: "unreadable"  open() raises IOError
\*       "malformed"   ELFFile() raises ELFError
\*       "nodynamic"   valid ELF without a DynamicSection; syms are the slots
\*                     of its .dynsym section, should it have one
\*       "nodynsym"    DynamicSection present, no section named .dynsym
\*       "ok"          DynamicSection and .dynsym present; syms are its slots
TablelessKinds == {"unreadable", "malformed", "nodynsym"}

TableKinds == {"nodynamic", "ok"}

FilesOver(pool, n) ==
    {File(k, <<>>) : k \in TablelessKinds}
        \cup {File(k, s) : k \in TableKinds, s \in SeqsUpTo(pool, n)}

Files == FilesOver(SymbolPool, MaxSyms)

\* Single-symbol tables over every readable symbol.
OneSymbolFiles == {File("ok", <<e>>) : e \in AllSymbols}

\* Files without a table, and files with a .dynsym of at most one pool slot.
OneSlotFiles ==
    {File(k, <<>>) : k \in TablelessKinds} \cup {File("ok", s) : s \in SeqsUpTo(SymbolPool, 1)}

\* How the scan of one file ends, and how many times found_paths.append(path)
\* ran for it.
Scanned(out, appended) == [out |-> out, appended |-> appended]

\* --------------------------------------------------------- the export test
\* Variant: the is_defined conjunct is dropped (imports count as exports).
IsExportMatch_Imports(symbol, target) ==
    /\ symbol.name = target
    /\ symbol.type = "STT_FUNC"
    /\ symbol.st_value # 0 \/ symbol.st_shndx = "SHN_UNDEF"

\* Variant: the is_function conjunct is dropped.
IsExportMatch_AnyType(symbol, target) ==
    /\ symbol.name = target
    /\ symbol.st_shndx # "SHN_UNDEF"
    /\ symbol.st_value # 0

\* Variant: the has_addr conjunct is dropped.
IsExportMatch_AnyAddr(symbol, target) ==
    /\ symbol.name = target
    /\ symbol.st_shndx # "SHN_UNDEF"
    /\ symbol.type = "STT_FUNC"

\* core.py:97-100
IsExportMatch(symbol, target) ==
    LET is_defined == symbol.st_shndx # "SHN_UNDEF"
        is_function == symbol.type = "STT_FUNC"
        has_addr == symbol.st_value # 0
    IN  symbol.name = target /\ is_defined /\ is_function /\ has_addr

\* Variant: no break after a match; every matching slot appends the path.
RECURSIVE IterSymbols_NoBreak(_, _, _, _)
IterSymbols_NoBreak(syms, j, target, flag) ==
    IF j > Len(syms) THEN Scanned("exhausted", 0)
    ELSE IF ~syms[j].ok THEN Scanned("ELFError", 0)
    ELSE IF flag # 0 THEN Scanned("stopped", 0)
    ELSE LET rest == IterSymbols_NoBreak(syms, j + 1, target, flag)
         IN  IF IsExportMatch(syms[j], target)
             THEN Scanned("match", rest.appended + 1)
             ELSE rest

\* Variant: the stop check of lines 94-95 is dropped.
RECURSIVE IterSymbols_NoStopCheck(_, _, _, _)
IterSymbols_NoStopCheck(syms, j, target, flag) ==
    IF j > Len(syms) THEN Scanned("exhausted", 0)
    ELSE IF ~syms[j].ok THEN Scanned("ELFError", 0)
    ELSE IF IsExportMatch(syms[j], target) THEN Scanned("match", 1)
    ELSE IterSymbols_NoStopCheck(syms, j + 1, target, flag)

\* core.py:92-107, the loop over dynsym.iter_symbols() from slot j on.  The
\* generator parses slot j before the loop body runs, so a corrupt slot
\* raises before the stop flag is looked at.  At the first match the path is
\* appended once and the loop is left (return at line 106, break at 107).
RECURSIVE IterSymbols(_, _, _, _)
IterSymbols(syms, j, target, flag) ==
    IF j > Len(syms) THEN Scanned("exhausted", 0)
    ELSE IF ~syms[j].ok THEN Scanned("ELFError", 0)
    ELSE IF flag # 0 THEN Scanned("stopped", 0)
    ELSE IF IsExportMatch(syms[j], target) THEN Scanned("match", 1)
    ELSE IterSymbols(syms, j + 1, target, flag)

\* core.py:92-100, how many slots the loop body looks at (lines 94-100) when
\* it walks the table from slot j on: up to and with the first match.
RECURSIVE ExaminedSlots(_, _, _, _)
ExaminedSlots(syms, j, target, flag) ==
    IF j > Len(syms) THEN 0
    ELSE IF ~syms[j].ok THEN 0
    ELSE IF flag # 0 THEN 0
    ELSE IF IsExportMatch(syms[j], target) THEN 1
    ELSE 1 + ExaminedSlots(syms, j + 1, target, flag)

\* core.py:77-100, the slots of a file that the loop body looks at.
ExaminedInFile(file, target, flag) ==
    IF file.kind = "ok" THEN ExaminedSlots(file.syms, 1, target, flag) ELSE 0

\* Variant: the DynamicSection test of lines 85-86 is dropped.
ProcessFile_NoDynamicCheck(file, target, flag) ==
    IF file.kind = "unreadable" THEN Scanned("IOError", 0)
    ELSE IF file.kind = "malformed" THEN Scanned("ELFError", 0)
    ELSE IF file.kind = "nodynsym" THEN Scanned("nodynsym", 0)
    ELSE IterSymbols(file.syms, 1, target, flag)

\* core.py:77-107, the body of the try block for one file.
ProcessFile(file, target, flag) ==
    IF file.kind = "unreadable" THEN Scanned("IOError", 0)
    ELSE IF file.kind = "malformed" THEN Scanned("ELFError", 0)
    ELSE IF file.kind = "nodynamic" THEN Scanned("nodynamic", 0)
    ELSE IF file.kind = "nodynsym" THEN Scanned("nodynsym", 0)
    ELSE IterSymbols(file.syms, 1, target, flag)

\* What a statement of the try block can raise.  AttributeError is what a
\* method call on a missing section object raises.
Exceptions == {"IOError", "ELFError", "AttributeError"}

\* Variant: only ELFError is caught.
Handled_ELFOnly(exc) == exc = "ELFError"

\* core.py:112, except (ELFError, IOError)
Handled(exc) == exc \in {"ELFError", "IOError"}

\* Variant: lines 105-106 run whatever find_all is.
ReturnsAtMatch_Always(all) == TRUE

\* Variant: the return of lines 104-106 is never taken.
ReturnsAtMatch_Never(all) == FALSE

\* core.py:104, the first match ends the search unless find_all
ReturnsAtMatch(all) == ~all

\* core.py:105, the value the stop flag takes at a first-match return
RaisedFlag == 1

\* ------------------------------------------------------------------- state
VARIABLES
    so_files,      \* SymbolFinder.so_files: the paths, in list order
    stop_flag,     \* SymbolFinder.stop_flag
    pc,            \* "idle": no call running; "loop": at the head of the for loop
    target_symbol, \* argument of the running find_symbol call
    find_all,      \* argument of the running find_symbol call
    idx,           \* position in so_files of the next path of the for loop
    found_paths,   \* local found_paths of the running call
    opened,        \* paths the running call has opened, in order
    examined,      \* slots of the file opened last that the loop body looked at
    disk,          \* path -> file, where the files are fixed beforehand
    seen,          \* for each opened file: what was true of it when read
    finder,        \* which SymbolFinder object over so_files is in use
    hist,          \* completed calls: arguments, result and raised exception
    mainpc,        \* position in main(); "none" when the finder is used directly
    args,          \* main's parsed arguments: symbol, all, and jobs on the pool path
    so_dir,        \* what the scan of args.so_dir meets
    log,           \* records emitted on the "findso" logger at INFO and above
    chunks,        \* main's chunks, in dispatch order
    wk,            \* for each chunk: the task process_chunk(chunk) in the pool
    taken,         \* the chunks whose result main has taken, in the order taken
    par_found,     \* main's found_paths on the parallel path
    pool           \* the multiprocessing.Pool: "none", "running", "terminated", "joined"

cliVars == <<mainpc, args, so_dir, log>>

parVars == <<chunks, wk, taken, par_found, pool>>

vars == <<so_files, stop_flag, pc, target_symbol, find_all, idx, found_paths,
          opened, examined, disk, seen, finder, hist, mainpc, args, so_dir, log,
          chunks, wk, taken, par_found, pool>>

\* ------------------------------------------- what is true of a file as read
\* Written from the ELF facts, not from the scan.  A file exports t when it
\* has a DynamicSection and a .dynsym whose slot i is an exported function
\* named t, every slot before it being readable.
Qualifying(e, t) ==
    /\ e.ok
    /\ e.name = t
    /\ e.st_shndx # "SHN_UNDEF"
    /\ e.type = "STT_FUNC"
    /\ e.st_value # 0

Exports(file, t) ==
    /\ file.kind = "ok"
    /\ \E i \in 1..Len(file.syms) :
          /\ Qualifying(file.syms[i], t)
          /\ \A j \in 1..(i - 1) : file.syms[j].ok

\* The file cannot be opened, is no ELF file, or iteration over its table
\* runs into a corrupt slot before any exported function named t.
Fails(file, t) ==
    \/ file.kind \in {"unreadable", "malformed"}
    \/ /\ file.kind = "ok"
       /\ \E i \in 1..Len(file.syms) :
             /\ ~file.syms[i].ok
             /\ \A j \in 1..(i - 1) : file.syms[j].ok /\ ~Qualifying(file.syms[j], t)

\* The number of slots of the table that are exported functions named t.
Matches(file, t) ==
    Cardinality({i \in 1..Len(file.syms) : Qualifying(file.syms[i], t)})

Truth(path, file, t) ==
    [path |-> path, kind |-> file.kind, matches |-> Matches(file, t),
     exports |-> Exports(file, t), fails |-> Fails(file, t)]

\* ----------------------------------------------------------------- actions
CallRecord(result, raised) ==
    [target_symbol |-> target_symbol, find_all |-> find_all,
     result |-> result, raised |-> raised, finder |-> finder]

\* core.py:53-65, SymbolFinder(so_files): stop_flag defaults to 0.
NewFinder(files) ==
    /\ so_files = files
    /\ stop_flag = 0
    /\ pc = "idle"
    /\ target_symbol = ""
    /\ find_all = FALSE
    /\ idx = 0
    /\ found_paths = <<>>
    /\ opened = <<>>
    /\ examined = 0
    /\ seen = <<>>
    /\ finder = 1
    /\ hist = <<>>

NoArgs == [symbol |-> "", all |-> FALSE]

NoDir == [find |-> "none", listing |-> <<>>]

\* The finder is driven directly (as the tests do), not by main().
NoMain ==
    /\ mainpc = "none"
    /\ args = NoArgs
    /\ so_dir = NoDir
    /\ log = <<>>

\* No pool: main is not run, or runs with jobs = 1.
NoPool ==
    /\ chunks = <<>>
    /\ wk = <<>>
    /\ taken = <<>>
    /\ par_found = <<>>
    /\ pool = "none"

\* A finder over n distinct paths 1..n; each file is read when it is opened.
Init ==
    /\ \E n \in 0..MaxFiles : NewFinder([i \in 1..n |-> i])
    /\ disk = <<>>
    /\ NoMain
    /\ NoPool

\* core.py:67-69, find_symbol(target_symbol, find_all) is entered.
FindSymbolCall(t, all) ==
    /\ pc = "idle"
    /\ pc' = "loop"
    /\ target_symbol' = t
    /\ find_all' = all
    /\ idx' = 1
    /\ found_paths' = <<>>
    /\ opened' = <<>>
    /\ examined' = 0
    /\ seen' = <<>>
    /\ UNCHANGED <<so_files, stop_flag, hist, disk, finder>>
    /\ UNCHANGED parVars

\* core.py:71-115, one pass of the for loop with the stop flag lowered: the
\* next path is opened and read as `file`.
FindSymbolFile(file) ==
    /\ pc = "loop"
    /\ idx <= Len(so_files)
    /\ stop_flag = 0
    /\ LET path == so_files[idx]
           scan == ProcessFile(file, target_symbol, stop_flag)
           out == scan.out
       IN  /\ opened' = Append(opened, path)
           /\ examined' = ExaminedInFile(file, target_symbol, stop_flag)
           /\ seen' = Append(seen, Truth(path, file, target_symbol))
           /\ found_paths' = found_paths \o [k \in 1..scan.appended |-> path]
           /\ IF out = "match" /\ ReturnsAtMatch(find_all)
              THEN /\ stop_flag' = RaisedFlag
                   /\ pc' = "idle"
                   /\ hist' = Append(hist, CallRecord(found_paths', "none"))
                   /\ idx' = idx
              ELSE IF out \in Exceptions /\ ~Handled(out)
              THEN /\ pc' = "idle"
                   /\ hist' = Append(hist, CallRecord(<<>>, out))
                   /\ UNCHANGED <<stop_flag, idx>>
              ELSE /\ idx' = idx + 1
                   /\ UNCHANGED <<stop_flag, pc, hist>>
    /\ UNCHANGED <<so_files, target_symbol, find_all, disk, finder>>
    /\ UNCHANGED cliVars
    /\ UNCHANGED parVars

\* core.py:71-74 and 117: the list is exhausted, or the stop flag is found
\* raised at the head of the loop; find_symbol returns found_paths.
FindSymbolReturn ==
    /\ pc = "loop"
    /\ (idx > Len(so_files) \/ stop_flag # 0)
    /\ pc' = "idle"
    /\ hist' = Append(hist, CallRecord(found_paths, "none"))
    /\ UNCHANGED <<so_files, stop_flag, target_symbol, find_all, idx, found_paths,
                   opened, examined, disk, seen, finder>>
    /\ UNCHANGED cliVars
    /\ UNCHANGED parVars

\* One search on a freshly built finder.
FirstSearch(t, all) == hist = <<>> /\ FindSymbolCall(t, all) /\ UNCHANGED cliVars

Next ==
    \/ \E t \in SymbolNames, all \in BOOLEAN : FirstSearch(t, all)
    \/ \E file \in Files : FindSymbolFile(file)
    \/ FindSymbolReturn

Spec == Init /\ [][Next]_vars

\* ------------------------------------------------ searches over fixed files
\* The for loop of find_symbol reading the next path from the fixed files.
FindSymbolDiskFile ==
    /\ pc = "loop"
    /\ idx <= Len(so_files)
    /\ FindSymbolFile(disk[so_files[idx]])

\* A finder over a list of files that hold one readable symbol each.
InitMatch ==
    \E n \in 1..MaxMatchFiles :
        /\ NewFinder([i \in 1..n |-> i])
        /\ disk \in [1..n -> OneSymbolFiles]
        /\ NoMain
        /\ NoPool

NextMatch ==
    \/ \E t \in SymbolNames, all \in BOOLEAN : FirstSearch(t, all)
    \/ FindSymbolDiskFile
    \/ FindSymbolReturn

SpecMatch == InitMatch /\ [][NextMatch]_vars

\* Files whose tables hold up to MaxSyms slots: exports and imports of puts.
TableSlots ==
    { Sym("puts", "14", "STT_FUNC", 4096),
      Sym("puts", "SHN_UNDEF", "STT_FUNC", 0) }

TableFiles ==
    {File("malformed", <<>>)} \cup {File("ok", s) : s \in SeqsUpTo(TableSlots, MaxSyms)}

\* One search on a new finder over files with tables of several slots.
InitTables ==
    \E n \in 1..MaxTableFiles :
        /\ NewFinder([i \in 1..n |-> i])
        /\ disk \in [1..n -> TableFiles]
        /\ NoMain
        /\ NoPool

SpecTables == InitTables /\ [][NextMatch]_vars

\* -------------------------------------------- repeated searches, one list
InitReuse ==
    \E n \in 0..MaxReuseFiles :
        /\ NewFinder([i \in 1..n |-> i])
        /\ disk \in [1..n -> OneSlotFiles]
        /\ NoMain
        /\ NoPool

\* A further find_symbol call on the finder in use.
NextSearch(t, all) ==
    Len(hist) < MaxCalls /\ FindSymbolCall(t, all) /\ UNCHANGED cliVars

\* core.py:53-65, SymbolFinder(so_files) once more, over the same list.
BuildFinder ==
    /\ pc = "idle"
    /\ hist # <<>>
    /\ finder < MaxFinders
    /\ finder' = finder + 1
    /\ stop_flag' = 0
    /\ UNCHANGED <<so_files, pc, target_symbol, find_all, idx, found_paths,
                   opened, examined, disk, seen, hist>>
    /\ UNCHANGED cliVars
    /\ UNCHANGED parVars

NextReuse ==
    \/ \E t \in SymbolNames, all \in BOOLEAN : NextSearch(t, all)
    \/ FindSymbolDiskFile
    \/ FindSymbolReturn
    \/ BuildFinder

SpecReuse == InitReuse /\ [][NextReuse]_vars

\* ------------------------------------------------- main(), sequential path
Msg(level, text, n) == [level |-> level, text |-> text, n |-> n]

\* What `file path` says of a path that find printed: "elf" (the output
\* holds "ELF"), "other", or "error" (running file raised).
FileVerdicts == {"elf", "other", "error"}

\* so_dir.find: "ok" (find exits 0 and prints the listing), "nonzero" (find
\* exits non-zero), "exception" (running find raised).
Dirs ==
    {[find |-> f, listing |-> <<>>] : f \in {"nonzero", "exception"}}
        \cup {[find |-> "ok", listing |-> l] : l \in SeqsUpTo(FileVerdicts, MaxListing)}

\* core.py:34-44, the paths whose `file` output holds "ELF", in find's order.
RECURSIVE ElfFiles(_, _)
ElfFiles(listing, i) ==
    IF i > Len(listing) THEN <<>>
    ELSE (IF listing[i] = "elf" THEN <<i>> ELSE <<>>) \o ElfFiles(listing, i + 1)

\* core.py:41-43, one warning for each path that `file` could not check.
RECURSIVE CheckWarnings(_, _)
CheckWarnings(listing, i) ==
    IF i > Len(listing) THEN <<>>
    ELSE (IF listing[i] = "error" THEN <<Msg("WARNING", "Error checking file", i)>> ELSE <<>>)
             \o CheckWarnings(listing, i + 1)

\* core.py:16-47, scan_so_files: the list returned and the records logged.
ScanSoFiles(dir) ==
    IF dir.find = "exception"
    THEN [files |-> <<>>, log |-> <<Msg("ERROR", "Error scanning directory", 0)>>]
    ELSE IF dir.find = "nonzero"
    THEN [files |-> <<>>,
          log |-> <<Msg("WARNING", "Directory not found or not accessible", 0)>>]
    ELSE [files |-> ElfFiles(dir.listing, 1), log |-> CheckWarnings(dir.listing, 1)]

\* Variant: main goes on to the search with an empty list.
ReturnsWithoutFiles_Never(files) == FALSE

\* cli.py:74, if not so_files
ReturnsWithoutFiles(files) == files = <<>>

\* cli.py:126-132, the records that report found_paths.
RECURSIVE FoundLines(_)
FoundLines(paths) ==
    IF paths = <<>> THEN <<>>
    ELSE <<Msg("INFO", "Found", Head(paths))>> \o FoundLines(Tail(paths))

ReportLines(paths) ==
    (IF paths # <<>> THEN FoundLines(paths) ELSE <<Msg("INFO", "No matches found", 0)>>)
        \o <<Msg("INFO", "Total matches", Len(paths))>>

\* main() is entered with parsed arguments; jobs is 1.
InitCli ==
    /\ NewFinder(<<>>)
    /\ disk = <<>>
    /\ mainpc = "scan"
    /\ args \in [symbol : SymbolNames, all : BOOLEAN]
    /\ so_dir \in Dirs
    /\ log = <<>>
    /\ NoPool

\* cli.py:66-76, the scan; main returns when it yields no file.
MainScan ==
    /\ mainpc = "scan"
    /\ LET scan == ScanSoFiles(so_dir)
       IN  /\ so_files' = scan.files
           /\ IF ReturnsWithoutFiles(scan.files)
              THEN /\ log' = <<Msg("INFO", "Looking up", 0)>> \o scan.log
                                 \o <<Msg("WARNING", "No .so files found", 0)>>
                   /\ mainpc' = "done"
              ELSE /\ log' = <<Msg("INFO", "Looking up", 0)>> \o scan.log
                   /\ mainpc' = "search"
    /\ UNCHANGED <<stop_flag, pc, target_symbol, find_all, idx, found_paths,
                   opened, examined, disk, seen, finder, hist, args, so_dir>>
    /\ UNCHANGED parVars

\* cli.py:114-118, SymbolFinder(so_files).find_symbol(args.symbol, args.all)
MainSearch ==
    /\ mainpc = "search"
    /\ mainpc' = "searching"
    /\ FindSymbolCall(args.symbol, args.all)
    /\ UNCHANGED <<args, so_dir, log>>

\* cli.py:118-132, find_symbol has returned; the result is reported.  An
\* exception leaving find_symbol leaves main too.
MainReport ==
    /\ mainpc = "searching"
    /\ pc = "idle"
    /\ IF hist[Len(hist)].raised = "none"
       THEN /\ log' = log \o ReportLines(hist[Len(hist)].result)
            /\ mainpc' = "done"
       ELSE /\ log' = log
            /\ mainpc' = "crashed"
    /\ UNCHANGED <<so_files, stop_flag, pc, target_symbol, find_all, idx, found_paths,
                   opened, examined, disk, seen, finder, hist, args, so_dir>>
    /\ UNCHANGED parVars

NextCli ==
    \/ MainScan
    \/ MainSearch
    \/ \E file \in Files : FindSymbolFile(file)
    \/ FindSymbolReturn
    \/ MainReport

SpecCli == InitCli /\ [][NextCli]_vars

\* --------------------------------------------------- main(), parallel path
\* cli.py:82, the cap on the chunk size.
MaxChunkSize == 50

Min2(a, b) == IF a <= b THEN a ELSE b

Max2(a, b) == IF a >= b THEN a ELSE b

\* Variant: the cap of line 82 is dropped.
ChunkSize_NoCap(n, jobs) == Max2(1, n \div (jobs * 2))

\* cli.py:82, chunk_size = max(1, min(50, len(so_files) // (args.jobs * 2)))
ChunkSize(n, jobs) == Max2(1, Min2(MaxChunkSize, n \div (jobs * 2)))

\* cli.py:83, [so_files[i : i + chunk_size] for i in range(0, len(so_files), chunk_size)]
Chunks(files, size) ==
    [k \in 1..((Len(files) + size - 1) \div size) |->
        SubSeq(files, (k - 1) * size + 1, Min2(k * size, Len(files)))]

\* cli.py:94-96, a task that apply_async has queued: no finder exists yet.
Queued == [st |-> "queued", stop_flag |-> 0, idx |-> 0, found_paths |-> <<>>]

\* A task whose worker process pool.terminate() has ended.
Killed == [st |-> "killed", stop_flag |-> 0, idx |-> 0, found_paths |-> <<>>]

\* cli.py:15 with core.py:53-65, the finder that process_chunk builds, and
\* the entry into find_symbol (cli.py:17).
Started == [st |-> "running", stop_flag |-> 0, idx |-> 1, found_paths |-> <<>>]

\* Variant: main leaves the collecting loop only at its end.
LeavesLoop_Never(all, found) == FALSE

\* cli.py:103-106, the break out of the collecting loop.
LeavesLoop(all, found) == ~all /\ found # <<>>

\* cli.py:103-105, pool.terminate().
TerminatesPool(all, found) == ~all /\ found # <<>>

\* Variant: results are taken in the order in which the tasks complete.
Collectable_AsCompleted(got, tasks) ==
    {c \in DOMAIN tasks : c \notin {got[i] : i \in DOMAIN got}}

\* cli.py:99-100, for result in results: the result of the next chunk in
\* dispatch order is the one main waits for.
Collectable(got, tasks) == {c \in DOMAIN tasks : c = Len(got) + 1}

\* Files of the pool path: one slot, an export or an import of puts.
ParSymbols == {"puts"}

ParExporter == File("ok", <<Sym("puts", "14", "STT_FUNC", 4096)>>)

ParImporter == File("ok", <<Sym("puts", "SHN_UNDEF", "STT_FUNC", 0)>>)

\* The contents of n files of which at most m export puts.
ParDisks(n, m) ==
    {d \in [1..n -> {ParExporter, ParImporter}] :
        Cardinality({p \in 1..n : d[p] = ParExporter}) <= m}

\* main() after a scan that found the paths 1..n; the search takes the pool
\* path when jobs > 1 (cli.py:79).
ScannedInto(m) ==
    /\ \E n \in 1..MaxParFiles :
          /\ NewFinder([i \in 1..n |-> i])
          /\ disk \in ParDisks(n, m)
    /\ args \in [symbol : ParSymbols, all : BOOLEAN, jobs : 1..MaxJobs]
    /\ mainpc = (IF args.jobs > 1 THEN "dispatch" ELSE "search")
    /\ so_dir = NoDir
    /\ log = <<>>
    /\ NoPool

InitPar == ScannedInto(MaxExporters)

finderVars == <<so_files, stop_flag, pc, target_symbol, find_all, idx, found_paths,
                opened, examined, disk, seen, finder, hist>>

\* cli.py:79-96, the chunks are cut, the pool is created and one task per
\* chunk is queued, in chunk order.
MainDispatch ==
    /\ mainpc = "dispatch"
    /\ args.jobs > 1
    /\ chunks' = Chunks(so_files, ChunkSize(Len(so_files), args.jobs))
    /\ wk' = [c \in DOMAIN chunks' |-> Queued]
    /\ taken' = <<>>
    /\ par_found' = <<>>
    /\ pool' = "running"
    /\ mainpc' = "collect"
    /\ UNCHANGED finderVars
    /\ UNCHANGED <<args, so_dir, log>>

\* A free worker process of the pool takes the oldest queued task and enters
\* process_chunk (cli.py:13-17): a new SymbolFinder over the chunk.
WorkerStart(c) ==
    /\ pool = "running"
    /\ c \in DOMAIN wk
    /\ wk[c].st = "queued"
    /\ \A b \in 1..(c - 1) : wk[b].st # "queued"
    /\ Cardinality({b \in DOMAIN wk : wk[b].st = "running"}) < args.jobs
    /\ wk' = [wk EXCEPT ![c] = Started]
    /\ UNCHANGED finderVars
    /\ UNCHANGED cliVars
    /\ UNCHANGED <<chunks, taken, par_found, pool>>

\* core.py:71-117 in the worker of chunk c: one pass of the file loop of its
\* finder; at the first-match return, and after the pass over the last path
\* of the chunk, find_symbol returns and the task is complete.
WorkerFile(c) ==
    /\ pool = "running"
    /\ c \in DOMAIN wk
    /\ wk[c].st = "running"
    /\ wk[c].idx <= Len(chunks[c])
    /\ wk[c].stop_flag = 0
    /\ LET w == wk[c]
           path == chunks[c][w.idx]
           scan == ProcessFile(disk[path], args.symbol, w.stop_flag)
           found == w.found_paths \o [k \in 1..scan.appended |-> path]
       IN  wk' = [wk EXCEPT ![c] =
                IF scan.out = "match" /\ ReturnsAtMatch(args.all)
                THEN [st |-> "done", stop_flag |-> RaisedFlag, idx |-> w.idx,
                      found_paths |-> found]
                ELSE IF scan.out \in Exceptions /\ ~Handled(scan.out)
                THEN [st |-> "failed", stop_flag |-> w.stop_flag, idx |-> w.idx,
                      found_paths |-> <<>>]
                ELSE [st |-> IF w.idx = Len(chunks[c]) THEN "done" ELSE "running",
                      stop_flag |-> w.stop_flag, idx |-> w.idx + 1,
                      found_paths |-> found]]
    /\ UNCHANGED finderVars
    /\ UNCHANGED cliVars
    /\ UNCHANGED <<chunks, taken, par_found, pool>>

\* cli.py:99-106, one pass of the collecting loop: result.get() returns once
\* the task is complete; a non-empty result is appended, and in first-match
\* mode the pool is terminated and the loop is left.  An exception of the
\* task is raised again by get() and leaves main (the with block terminates
\* the pool).
MainCollect ==
    /\ mainpc = "collect"
    /\ \E c \in Collectable(taken, wk) :
          /\ wk[c].st \in {"done", "failed"}
          /\ taken' = Append(taken, c)
          /\ LET result == wk[c].found_paths
                 found == par_found \o result
                 ends == \/ wk[c].st = "failed"
                         \/ result # <<>> /\ TerminatesPool(args.all, found)
                 leaves == result # <<>> /\ LeavesLoop(args.all, found)
             IN  /\ par_found' = found
                 /\ pool' = IF ends THEN "terminated" ELSE pool
                 /\ wk' = IF ends
                           THEN [b \in DOMAIN wk |->
                                   IF wk[b].st \in {"done", "failed"} THEN wk[b] ELSE Killed]
                           ELSE wk
                 /\ mainpc' = IF wk[c].st = "failed" THEN "crashed"
                              ELSE IF leaves \/ Len(taken') = Len(chunks) THEN "close"
                              ELSE "collect"
    /\ UNCHANGED finderVars
    /\ UNCHANGED <<args, so_dir, log, chunks>>

\* cli.py:108-132, pool.close() and pool.join() return (every worker has
\* ended or has no task left), the with block is left and the result is
\* reported.
MainClose ==
    /\ mainpc = "close"
    /\ \A c \in DOMAIN wk : wk[c].st \in {"done", "killed"}
    /\ pool' = "joined"
    /\ log' = log \o ReportLines(par_found)
    /\ mainpc' = "done"
    /\ UNCHANGED finderVars
    /\ UNCHANGED <<args, so_dir, chunks, wk, taken, par_found>>

\* main is run once more over the same files, now with jobs = 1: the scan
\* returns the same list and the search takes the path of cli.py:114-118.
MainAgain ==
    /\ mainpc = "done"
    /\ args.jobs > 1
    /\ hist = <<>>
    /\ args' = [args EXCEPT !.jobs = 1]
    /\ log' = <<>>
    /\ mainpc' = "search"
    /\ UNCHANGED finderVars
    /\ UNCHANGED so_dir
    /\ UNCHANGED parVars

\* One run of main.
NextRun ==
    \/ MainDispatch
    \/ \E c \in 1..MaxParFiles : WorkerStart(c)
    \/ \E c \in 1..MaxParFiles : WorkerFile(c)
    \/ MainCollect
    \/ MainClose
    \/ MainSearch
    \/ FindSymbolDiskFile
    \/ FindSymbolReturn
    \/ MainReport

NextPar ==
    \/ NextRun
    \/ MainAgain

SpecPar == InitPar /\ [][NextPar]_vars

\* The scheduling of a run of main: a worker that can take or continue a task
\* does so, main's own steps are taken when they can be, and find_symbol on
\* the sequential path runs on.
InitParFair == ScannedInto(MaxFairExporters)

SpecParFair ==
    /\ InitParFair
    /\ [][NextRun]_vars
    /\ WF_vars(\E c \in 1..MaxParFiles : WorkerStart(c) \/ WorkerFile(c))
    /\ WF_vars(MainDispatch \/ MainCollect \/ MainClose)
    /\ WF_vars(MainSearch \/ FindSymbolDiskFile \/ FindSymbolReturn \/ MainReport)

\* main() at cli.py:79 with jobs > 1 and a list of n paths; only the cut
\* into chunks and the dispatch are followed.
InitChunk ==
    /\ \E n \in 1..MaxChunkFiles : NewFinder([i \in 1..n |-> i])
    /\ disk = <<>>
    /\ args \in [symbol : ParSymbols, all : BOOLEAN, jobs : 2..MaxChunkJobs]
    /\ mainpc = "dispatch"
    /\ so_dir = NoDir
    /\ log = <<>>
    /\ NoPool

SpecChunk == InitChunk /\ [][MainDispatch]_vars

\* ================================================================ claims
Returned == pc = "idle" /\ hist # <<>>

Last == hist[Len(hist)]

Range(q) == {q[i] : i \in DOMAIN q}

Times(p, q) == Cardinality({i \in DOMAIN q : q[i] = p})

NoneRaised == \A i \in DOMAIN hist : hist[i].raised = "none"

\* The opened files are the first files of the list, in list order.
SeenInListOrder ==
    /\ Len(seen) <= Len(so_files)
    /\ \A k \in DOMAIN seen : seen[k].path = so_files[k]

\* The paths of the opened files that export the target, in opening order.
RECURSIVE ExportingPaths(_)
ExportingPaths(s) ==
    IF s = <<>> THEN <<>>
    ELSE (IF Head(s).exports THEN <<Head(s).path>> ELSE <<>>) \o ExportingPaths(Tail(s))

\* C1: a find_all=false search on a fresh finder returns at most one path,
\* and a returned path is that of the first file, in list order, that exports
\* the target: every file before it was opened and does not export it.
C1_FirstMatchOnly ==
    (Returned /\ ~Last.find_all) =>
        /\ Len(Last.result) <= 1
        /\ Last.result # <<>> =>
              /\ SeenInListOrder
              /\ \E k \in DOMAIN seen :
                    /\ seen[k].exports
                    /\ Last.result = <<so_files[k]>>
                    /\ \A j \in 1..(k - 1) : ~seen[j].exports

C1_Witness ==
    /\ Returned /\ ~Last.find_all
    /\ Len(so_files) = 3
    /\ Last.result = <<2>>
    /\ ~seen[1].exports

\* C2: a find_all=true search opens every file of the list and returns
\* exactly the paths of the files that export the target, in list order.
C2_FindAll ==
    (Returned /\ Last.find_all) =>
        /\ SeenInListOrder
        /\ Len(seen) = Len(so_files)
        /\ Last.result = ExportingPaths(seen)

C2_Witness ==
    /\ Returned /\ Last.find_all
    /\ Last.result = <<1, 3>>
    /\ ~seen[2].exports

\* C3: during and after a find_all=true search no path occurs twice in
\* found_paths (nor in the result), also when a table holds several
\* exported functions named as the target.
C3_NoDuplicatePerFile ==
    find_all =>
        /\ \A p \in Range(so_files) : Times(p, found_paths) <= 1
        /\ Returned => \A p \in Range(so_files) : Times(p, Last.result) <= 1

C3_Witness ==
    /\ Returned /\ find_all
    /\ \E k \in DOMAIN seen :
          /\ seen[k].kind = "ok"
          /\ seen[k].matches = 2
          /\ Times(seen[k].path, Last.result) = 1

\* C4 as stated: a failing file contributes no path, no error reaches the
\* caller, every file after it is processed and every match is in the result.
C4_AllLaterFilesProcessed ==
    \A k \in DOMAIN seen :
        seen[k].fails =>
            /\ seen[k].path \notin Range(found_paths)
            /\ NoneRaised
            /\ Returned => /\ Len(seen) = Len(so_files)
                           /\ \A j \in DOMAIN seen :
                                 seen[j].exports => seen[j].path \in Range(Last.result)

\* C4 amended: a failing file contributes no path, no error reaches the
\* caller and the loop moves on to the next path; the search ends before the
\* end of the list only by a find_all=false search returning its first match,
\* and every match found is in the result.
C4_ErrorIsolation ==
    \A k \in DOMAIN seen :
        seen[k].fails =>
            /\ seen[k].path \notin Range(found_paths)
            /\ NoneRaised
            /\ k < idx
            /\ Returned =>
                  /\ \/ Len(seen) = Len(so_files)
                     \/ /\ ~Last.find_all
                        /\ seen[Len(seen)].exports
                        /\ Last.result = <<seen[Len(seen)].path>>
                  /\ \A j \in DOMAIN seen :
                        seen[j].exports => seen[j].path \in Range(Last.result)

C4_Witness ==
    /\ Returned /\ Last.find_all
    /\ Len(seen) = 3
    /\ seen[1].exports
    /\ seen[2].fails /\ seen[2].kind = "ok"
    /\ seen[3].exports
    /\ Last.result = <<1, 3>>

\* C6: a valid file without a DynamicSection, or without a .dynsym section,
\* contributes no path and raises nothing; the loop moves on, and the search
\* does not return before the next file of the list is opened.
C6_MissingSymbolTable ==
    \A k \in DOMAIN seen :
        seen[k].kind \in {"nodynamic", "nodynsym"} =>
            /\ seen[k].path \notin Range(found_paths)
            /\ NoneRaised
            /\ k < idx
            /\ Returned => (k = Len(so_files) \/ Len(seen) > k)

C6_Witness ==
    /\ Returned
    /\ Len(seen) = 3
    /\ seen[1].kind = "nodynamic" /\ seen[1].matches > 0
    /\ seen[2].kind = "nodynsym"
    /\ Last.result = <<3>>

\* C7: every path collected or returned is the path of an opened file of the
\* list that exports the target; a search that met no exporting file returns
\* the empty list, raises nothing, has opened every file of the list and
\* leaves the stop flag lowered.
C7_NoFalsePositives ==
    /\ \A i \in DOMAIN found_paths :
          \E k \in DOMAIN seen :
              seen[k].path = found_paths[i] /\ so_files[k] = found_paths[i] /\ seen[k].exports
    /\ Returned =>
          /\ Range(Last.result) \subseteq {seen[k].path : k \in {j \in DOMAIN seen : seen[j].exports}}
          /\ (\A k \in DOMAIN seen : ~seen[k].exports) =>
                /\ Last.result = <<>>
                /\ Last.raised = "none"
                /\ opened = so_files
                /\ stop_flag = 0

C7_Witness ==
    /\ Returned
    /\ Len(so_files) = 3
    /\ \A k \in DOMAIN seen : ~seen[k].exports
    /\ seen[1].kind = "ok"
    /\ seen[2].kind = "nodynamic" /\ seen[2].matches > 0
    /\ seen[3].kind = "ok" /\ seen[3].fails /\ seen[3].matches > 0
    /\ Last.result = <<>>

\* C5: a file holding the single symbol e is collected exactly when e is
\* named as the target, is not SHN_UNDEF, is STT_FUNC and has a non-zero
\* value; and for a collected e, a symbol that differs from it in the name
\* alone, or is undefined instead, or is no function instead, or has value 0
\* instead, does not match the target.
OneChange(e) ==
    {[e EXCEPT !.name = n] : n \in SymbolNames \ {e.name}}
        \cup {[e EXCEPT !.st_shndx = "SHN_UNDEF"]}
        \cup {[e EXCEPT !.type = t] : t \in TypeValues \ {"STT_FUNC"}}
        \cup {[e EXCEPT !.st_value = 0]}

C5_ExportPredicate ==
    \A k \in DOMAIN opened :
        LET p == opened[k]
            e == disk[p].syms[1]
            collected == p \in Range(found_paths)
        IN  /\ collected <=> /\ e.name = target_symbol
                             /\ e.st_shndx # "SHN_UNDEF"
                             /\ e.type = "STT_FUNC"
                             /\ e.st_value # 0
            /\ collected => \A e2 \in OneChange(e) : ~IsExportMatch(e2, target_symbol)

C5_Witness ==
    /\ Returned
    /\ Last.result = <<1>>
    /\ disk[1].syms[1].st_shndx = "SHN_ABS"

\* C8 as stated: every find_symbol call starts its loop with the stop flag
\* lowered, whatever the earlier calls on the finder did.
C8_FlagLoweredAtCall ==
    (pc = "loop" /\ idx = 1) => stop_flag = 0

\* The call that completed as hist[i] was the first on its finder.
FirstOnFinder(i) == \A j \in 1..(i - 1) : hist[j].finder # hist[i].finder

\* C9: two find_all=true searches for one target, run one after the other on
\* one finder or each on a finder just built from the list, return the same
\* sequence of paths.
C9_Idempotent ==
    \A i \in 1..(Len(hist) - 1) :
        LET a == hist[i]
            b == hist[i + 1]
        IN  ( /\ a.find_all /\ b.find_all
              /\ a.target_symbol = b.target_symbol
              /\ \/ a.finder = b.finder
                 \/ FirstOnFinder(i) /\ FirstOnFinder(i + 1) )
            => /\ a.result = b.result
               /\ a.raised = "none" /\ b.raised = "none"

C9_Witness ==
    /\ Len(hist) = 2
    /\ hist[1].find_all /\ hist[2].find_all
    /\ hist[1].target_symbol = hist[2].target_symbol
    /\ hist[1].finder = hist[2].finder
    /\ hist[2].result = <<1, 2>>

Logged(text) == \E i \in DOMAIN log : log[i].text = text

\* C10: when main is done, a search that ran over the candidates and found
\* nothing has logged "No matches found" and "Total matches" 0 and nothing
\* about a failed scan, while a scan that failed has logged its failure and
\* "No .so files found" and neither of the former two: the two outcomes
\* differ in what the caller is shown.
C10_DistinctOutcomes ==
    mainpc = "done" =>
        /\ (hist # <<>> /\ Last.result = <<>>) =>
              /\ log[Len(log)] = Msg("INFO", "Total matches", 0)
              /\ log[Len(log) - 1] = Msg("INFO", "No matches found", 0)
              /\ ~Logged("No .so files found")
              /\ ~Logged("Directory not found or not accessible")
              /\ ~Logged("Error scanning directory")
        /\ so_dir.find \in {"nonzero", "exception"} =>
              /\ hist = <<>>
              /\ log[Len(log)] = Msg("WARNING", "No .so files found", 0)
              /\ \/ Logged("Directory not found or not accessible")
                 \/ Logged("Error scanning directory")
              /\ ~Logged("No matches found")
              /\ ~Logged("Total matches")

C10_Witness ==
    /\ mainpc = "done"
    /\ hist # <<>> /\ Last.result = <<>>
    /\ Len(opened) = 2
    /\ Logged("No matches found")

\* ---------------------------------------------------------------------------
\* C11  Sequential early stop.  With find_all false, the step in which a file
\* yields a qualifying match is the step in which the search returns: the
\* matching file is the last one opened, the files opened are the list up to
\* it, the slots examined in it end at its first qualifying slot, and the
\* result is that one path.
FirstQualifying(file, t) ==
    CHOOSE i \in 1..Len(file.syms) :
        /\ Qualifying(file.syms[i], t)
        /\ \A j \in 1..(i - 1) : ~Qualifying(file.syms[j], t)

C11_EarlyStop ==
    (~find_all /\ found_paths # <<>>) =>
        LET k == Len(opened)
            p == opened[k]
        IN  /\ Returned
            /\ Last.result = <<p>>
            /\ found_paths = <<p>>
            /\ opened = SubSeq(so_files, 1, k)
            /\ \A i \in 1..(k - 1) : ~Exports(disk[opened[i]], target_symbol)
            /\ Exports(disk[p], target_symbol)
            /\ examined = FirstQualifying(disk[p], target_symbol)

\* The first file matches in its first slot, has a second qualifying slot, and
\* a second exporting file follows it; the search has returned.
C11_Witness ==
    /\ Returned /\ ~find_all /\ Last.result = <<1>>
    /\ opened = <<1>> /\ examined = 1
    /\ Len(so_files) = 2
    /\ Matches(disk[1], target_symbol) = 2
    /\ Exports(disk[2], target_symbol)

\* ---------------------------------------------------------------------------
\* C16  Stop flag monotonicity.  In every step that keeps the finder, a raised
\* stop flag stays as it is, and the flag changes only in the loop pass of a
\* find_all=false call that appends a match and returns; a find_all=true call
\* never changes it.
C16_FlagMonotone ==
    [][ finder' = finder =>
          /\ stop_flag # 0 => stop_flag' = stop_flag
          /\ stop_flag' # stop_flag =>
                /\ ~find_all
                /\ pc = "loop" /\ pc' = "idle"
                /\ stop_flag' = 1
                /\ Exports(disk[so_files[idx]], target_symbol)
                /\ found_paths' = Append(found_paths, so_files[idx]) ]_vars

\* A first-match call raised the flag of a finder, and a find_all call on the
\* same finder has completed since: the flag is still raised.
C16_Witness ==
    /\ Returned /\ Len(hist) = 2
    /\ hist[1].finder = finder /\ hist[2].finder = finder
    /\ ~hist[1].find_all /\ hist[1].result # <<>>
    /\ hist[2].find_all
    /\ stop_flag = 1

\* ---------------------------------------------------------------------------
\* C17  Stop check points.  At the head of the file loop with the flag raised,
\* the next step of the call opens no file, examines no slot and returns the
\* paths collected so far; a call that starts with the flag raised has opened
\* nothing and returns the empty list.  The loop over a table, entered with
\* the flag raised, stops at its first slot with nothing appended.
RaisedOnFinder(n) ==
    \E j \in 1..n :
        /\ hist[j].finder = finder
        /\ ~hist[j].find_all
        /\ hist[j].result # <<>>

C17_StopCheckPoints ==
    /\ [][ (pc = "loop" /\ stop_flag # 0) =>
             /\ pc' = "idle"
             /\ opened' = opened /\ examined' = examined
             /\ hist' = Append(hist, CallRecord(found_paths, "none")) ]_vars
    /\ []( (pc = "loop" /\ RaisedOnFinder(Len(hist))) =>
             /\ stop_flag # 0
             /\ opened = <<>> /\ examined = 0 /\ found_paths = <<>> )
    /\ []( (Returned /\ Last.finder = finder /\ RaisedOnFinder(Len(hist) - 1)) =>
             /\ opened = <<>> /\ examined = 0
             /\ Last.result = <<>> /\ Last.raised = "none" )
    /\ []( \A p \in DOMAIN disk, t \in SymbolNames :
             (disk[p].kind = "ok" /\ disk[p].syms # <<>> /\ disk[p].syms[1].ok) =>
                 /\ IterSymbols(disk[p].syms, 1, t, RaisedFlag) = Scanned("stopped", 0)
                 /\ ExaminedSlots(disk[p].syms, 1, t, RaisedFlag) = 0 )

\* The second call on a finder whose flag the first call raised has returned
\* the empty list with no file opened, over a list whose first file exports
\* the target of that second call.
C17_Witness ==
    /\ Returned /\ Len(hist) = 2
    /\ hist[1].finder = finder /\ hist[2].finder = finder
    /\ ~hist[1].find_all /\ hist[1].result # <<>>
    /\ hist[2].result = <<>>
    /\ opened = <<>>
    /\ so_files # <<>>
    /\ Exports(disk[so_files[1]], hist[2].target_symbol)

\* ---------------------------------------------------------------------------
\* C12  Parallel first-match cancellation.  With find_all false on the pool
\* path, a non-empty chunk result is the last result main takes: the loop is
\* left with it, at most one taken result is non-empty, and main's
\* found_paths holds at most one path.
NonEmptyTaken == {i \in DOMAIN taken : wk[taken[i]].found_paths # <<>>}

C12_FirstMatchCancel ==
    (pool # "none" /\ ~args.all) =>
        /\ Len(par_found) <= 1
        /\ Cardinality(NonEmptyTaken) <= 1
        /\ \A i \in NonEmptyTaken :
              /\ i = Len(taken)
              /\ mainpc # "collect"
              /\ par_found = wk[taken[i]].found_paths

\* Main took the match of one chunk and left the loop while another chunk
\* had completed with a match of its own and a third task was still unfinished.
C12_Witness ==
    /\ pool = "terminated" /\ ~args.all
    /\ Len(par_found) = 1
    /\ \E c \in DOMAIN wk :
          /\ c \notin Range(taken)
          /\ wk[c].st = "done" /\ wk[c].found_paths # <<>>
    /\ \E c \in DOMAIN wk : wk[c].st = "killed"

RECURSIVE ExportersOf(_, _)
ExportersOf(paths, t) ==
    IF paths = <<>> THEN <<>>
    ELSE (IF Exports(disk[Head(paths)], t) THEN <<Head(paths)>> ELSE <<>>)
             \o ExportersOf(Tail(paths), t)

C14_ChunkLocalStop ==
    \A c \in DOMAIN wk :
        LET w == wk[c]
            own == ExportersOf(chunks[c], args.symbol)
        IN  /\ w.st = "running" => w.stop_flag = 0
            /\ w.stop_flag # 0 =>
                  /\ ~args.all /\ w.st = "done"
                  /\ own # <<>> /\ chunks[c][w.idx] = own[1]
            /\ (w.st = "done" /\ w.idx <= Len(chunks[c])) =>
                  /\ ~args.all /\ w.stop_flag # 0
                  /\ chunks[c][w.idx] = own[1]
            /\ w.st = "done" =>
                  w.found_paths = (IF args.all \/ own = <<>> THEN own ELSE <<own[1]>>)

\* The task of the first chunk returned at a match in the first of its two
\* files; the task of the second chunk, with no exporting file, went through
\* both of its files with its flag lowered.
C14_Witness ==
    /\ ~args.all
    /\ Len(chunks) >= 2
    /\ Len(chunks[1]) = 2 /\ wk[1].st = "done" /\ wk[1].stop_flag = 1 /\ wk[1].idx = 1
    /\ Len(chunks[2]) = 2 /\ wk[2].st = "done" /\ wk[2].stop_flag = 0 /\ wk[2].idx = 3
    /\ wk[2].found_paths = <<>>

\* ---------------------------------------------------------------------------
\* C15  Chunk partition.  After the dispatch the chunks are non-empty, their
\* concatenation in dispatch order is the file list, every chunk but the last
\* has the chunk size and the last has no more, the chunk size is
\* len(files) // (2 * jobs) held between 1 and 50, and no smaller jobs > 1
\* gives a smaller chunk size.
RECURSIVE Concat(_)
Concat(qs) == IF qs = <<>> THEN <<>> ELSE Head(qs) \o Concat(Tail(qs))

C15_ChunkPartition ==
    pool = "running" =>
        LET n == Len(so_files)
            q == n \div (2 * args.jobs)
            size == Len(chunks[1])
        IN  /\ chunks # <<>>
            /\ \A c \in DOMAIN chunks : chunks[c] # <<>>
            /\ Concat(chunks) = so_files
            /\ \A c \in 1..(Len(chunks) - 1) : Len(chunks[c]) = size
            /\ Len(chunks[Len(chunks)]) <= size
            /\ size = (IF q < 1 THEN 1 ELSE IF q > 50 THEN 50 ELSE q)
            /\ 1 <= size /\ size <= 50
            /\ \A j \in 2..args.jobs : ChunkSize(n, j) >= size

\* A list long enough for the cap: chunks of 50 and a shorter last chunk.
C15_Witness ==
    /\ pool = "running"
    /\ Len(so_files) > 200
    /\ Len(chunks[1]) = 50
    /\ Len(chunks[Len(chunks)]) < 50

\* ---------------------------------------------------------------------------
\* C18  Termination.  Under the scheduling of SpecParFair every run of main,
\* on the sequential path or with a pool, reaches its end, and at the end the
\* search either stopped at a first match or went through every file, and the
\* paths gathered are what main reports: on the pool path main has then taken
\* every chunk's result, or left the loop at a match and terminated the pool
\* without waiting for any other result.
SeqStopped == ~Last.find_all /\ Last.result # <<>> /\ stop_flag # 0

SeqExhausted == opened = so_files /\ Last.result = found_paths

ParStopped ==
    /\ ~args.all /\ par_found # <<>>
    /\ pool \in {"terminated", "joined"}

ParExhausted ==
    /\ Len(taken) = Len(chunks)
    /\ \A c \in DOMAIN wk : wk[c].st = "done"
    /\ \A c \in DOMAIN wk : args.all \/ wk[c].found_paths = <<>> => wk[c].idx = Len(chunks[c]) + 1

C18_Termination ==
    /\ (mainpc # "done") ~> (mainpc = "done")
    /\ []( mainpc = "done" =>
             /\ hist # <<>> =>
                   /\ SeqStopped \/ SeqExhausted
                   /\ log = ReportLines(Last.result)
             /\ pool # "none" =>
                   /\ pool = "joined"
                   /\ ParStopped \/ ParExhausted
                   /\ log = ReportLines(par_found) )
    /\ []( mainpc = "close" => ParStopped \/ ParExhausted )

\* A first-match search with a pool is done: main terminated the pool with
\* tasks unfinished and did not wait for them.
C18_Witness ==
    /\ mainpc = "done" /\ pool = "joined"
    /\ ~args.all /\ Len(par_found) = 1
    /\ \E c \in DOMAIN wk : wk[c].st = "killed"
    /\ Len(taken) < Len(chunks)

====
